---- MODULE Spec2Model ----
(***************************************************************************)
(* Model of Source/extension/index.activateDecorations.ts: the pinned      *)
(* result (activeResultId), the asynchronous update passes that decorate   *)
(* the visible editors with the thread-flow steps of the pinned result,    *)
(* and the store.logs observer that clears the decorations.                *)
(*                                                                         *)
(* Text is modelled as a sequence of lines, a line as a sequence of        *)
(* characters; the edit script of the diff is kept at line granularity.    *)
(* A step of the model runs from one suspension point of the extension     *)
(* host's event loop to the next one.                                      *)
(***************************************************************************)
EXTENDS Integers, Sequences, FiniteSets, TLC

\* ------------------------------------------------------------------ bounds
\* update() invocations and store.logs removal handlers are numbered by one
\* clock; events that would take a number beyond MaxPasses are disabled.
MaxPasses == 2

\* ------------------------------------------------------- absent / undefined
\* an absent string, and an absent object
None == "undefined"

Undefined == [undefined |-> TRUE]

\* ------------------------------------------------------------ the documents
Editors == {"e1", "e2"}

EditorDoc == [e \in Editors |-> IF e = "e1" THEN "d1" ELSE "d2"]

Docs == {"d1", "d2"}

\* editor.options.tabSize
TabSize == [e \in Editors |-> IF e = "e1" THEN 4 ELSE 2]

Chars(c, n) == [i \in 1..n |-> c]

LineZ == Chars("z", 3)
LineA == Chars("a", 10)
LineN == <<"\t">> \o Chars("n", 5) \o <<"\t">>
LineB == <<"\t">> \o Chars("b", 2)
LineC == Chars("c", 14)
LineP == Chars("p", 2)
LineQ == <<"\t", "\t">> \o Chars("q", 1)

\* the text of the open document, as lines
CurrentText == [d \in Docs |-> IF d = "d1" THEN <<LineA, LineN, LineB, LineC>>
                                            ELSE <<LineP, LineQ>>]

\* the text of the document at the analysed commit, as lines
BaselineText == [d \in Docs |-> IF d = "d1" THEN <<LineZ, LineA, LineB, LineC>>
                                             ELSE <<LineP, LineQ>>]

\* baser.translateLocalToArtifact(currentDoc.uri)
translateLocalToArtifact(d) == IF d = "d1" THEN "src/d1" ELSE "src/d2"

\* ------------------------------------------------------- the analysis logs
LogUris == {"a", "b"}

\* thread-flow location: id is the identity of the object
Tfl(id, uri, startLine, text) ==
    [id |-> id, uri |-> uri, region |-> [startLine |-> startLine], text |-> text]

\* results of run 0 of each log; _id is [log uri, run index, result index]
LogResults ==
    [u \in LogUris |->
        IF u = "a"
        THEN << [_id |-> <<"a", 0, 0>>,
                 locations |-> << Tfl(1, "src/d1", 2, "source"),
                                  Tfl(2, "src/d2", 1, None),
                                  Tfl(3, "src/d1", 4, "sink") >>],
                [_id |-> <<"a", 0, 1>>,
                 locations |-> << Tfl(4, "src/d2", 2, ""),
                                  Tfl(5, "src/d1", 1, "gone") >>] >>
        ELSE << [_id |-> <<"b", 0, 0>>,
                 locations |-> << Tfl(6, "src/d1", 3, "step"),
                                  Tfl(7, "src/d1", 3, "step") >>] >>]

AllResults == UNION {{LogResults[u][k] : k \in 1..Len(LogResults[u])} : u \in LogUris}

\* findResult(logs, id): the result of a log that is in the store, or undefined
findResult(lg, id) ==
    IF id[1] \in lg /\ id[2] = 0 /\ id[3] + 1 \in 1..Len(LogResults[id[1]])
    THEN LogResults[id[1]][id[3] + 1]
    ELSE Undefined

\* ------------------------------------------------ JSON.stringify / JSON.parse
Quote(s) == "\"" \o s \o "\""

\* JSON.stringify(result._id): the text ["<uri>",<run>,<result>]
JSONstringify(id) ==
    "[" \o Quote(id[1]) \o "," \o ToString(id[2]) \o "," \o ToString(id[3]) \o "]"

ResultIds == {r._id : r \in AllResults}

\* JSON.parse(resultId) as ResultId: the array whose JSON text is resultId
JSONparse(s) == CHOOSE id \in ResultIds : JSONstringify(id) = s

\* ------------------------------------------------------------ the selection
\* a code-action context: context.only and context.diagnostics, whose
\* elements are diagnostics with or without a result
Diagnostic(result) == [result |-> result]

Contexts(lg) ==
    LET live == {r \in AllResults : r._id[1] \in lg}
        diags == {<<>>, <<Diagnostic(Undefined)>>}
                   \cup {<<Diagnostic(r)>> : r \in live}
                   \cup {<<Diagnostic(Undefined), Diagnostic(r)>> : r \in live}
    IN  [only : {None, "quickfix"}, diagnostics : diags]

\* the _id of the result of context.diagnostics[0]; <<>> when there is no
\* diagnostic or it has no result
firstResultId(context) ==
    IF context.diagnostics = <<>> THEN <<>>
    ELSE IF context.diagnostics[1].result = Undefined THEN <<>>
    ELSE context.diagnostics[1].result._id

\* provideCodeActions, were it to clear the box when nothing is selected
provideCodeActions_clears(active, context) ==
    IF context.only # None THEN active
    ELSE IF context.diagnostics = <<>> THEN None
    ELSE LET result == context.diagnostics[1].result
         IN  IF result = Undefined THEN None
             ELSE JSONstringify(result._id)

\* provideCodeActions, were it to set the box only while it is unset
provideCodeActions_onlyWhenUnset(active, context) ==
    IF context.only # None THEN active
    ELSE IF context.diagnostics = <<>> THEN active
    ELSE LET result == context.diagnostics[1].result
         IN  IF result = Undefined \/ active # None THEN active
             ELSE JSONstringify(result._id)

\* the value of activeResultId after provideCodeActions(_doc, _range, context)
provideCodeActions(active, context) ==
    IF context.only # None THEN active
    ELSE IF context.diagnostics = <<>> THEN active
    ELSE LET diagnostic == context.diagnostics[1]
             result == diagnostic.result
         IN  IF result = Undefined THEN active
             ELSE JSONstringify(result._id)

\* ------------------------------------------------------------------ the diff
RECURSIVE LcsLen(_, _)
LcsLen(b, c) ==
    IF b = <<>> \/ c = <<>> THEN 0
    ELSE IF Head(b) = Head(c) THEN 1 + LcsLen(Tail(b), Tail(c))
    ELSE LET x == LcsLen(Tail(b), c)
             y == LcsLen(b, Tail(c))
         IN  IF x >= y THEN x ELSE y

Block(op, n) == [op |-> op, count |-> n]

\* prepend one unit of op to a script, merging it into a leading run of op
Cons(op, script) ==
    IF script # <<>> /\ Head(script).op = op
    THEN <<Block(op, Head(script).count + 1)>> \o Tail(script)
    ELSE <<Block(op, 1)>> \o script

\* diffChars(originalDoc.getText(), currentDoc.getText()): a minimal edit
\* script of runs that are common ("Equal"), removed ("Delete") or added
\* ("Insert"); the unit is the line
RECURSIVE diffChars(_, _)
diffChars(b, c) ==
    IF b = <<>> /\ c = <<>> THEN <<>>
    ELSE IF b = <<>> THEN <<Block("Insert", Len(c))>>
    ELSE IF c = <<>> THEN <<Block("Delete", Len(b))>>
    ELSE IF Head(b) = Head(c) THEN Cons("Equal", diffChars(Tail(b), Tail(c)))
    ELSE IF LcsLen(Tail(b), c) >= LcsLen(b, Tail(c))
         THEN Cons("Delete", diffChars(Tail(b), c))
         ELSE Cons("Insert", diffChars(b, Tail(c)))

\* ------------------------------------------------------------ the projector
Range(line) == [start |-> [line |-> line], end |-> [line |-> line]]

\* walk the edit script with a baseline cursor bc and a current cursor cc:
\* a baseline line inside an Equal run maps to the current line at the same
\* distance from the run's start, a line inside a Delete run has no image
RECURSIVE measureDrift(_, _, _, _)
measureDrift(script, line, bc, cc) ==
    IF script = <<>> THEN Undefined
    ELSE LET blk == Head(script)
         IN  IF blk.op = "Equal"
             THEN IF line >= bc /\ line < bc + blk.count
                  THEN Range(line + (cc - bc))
                  ELSE measureDrift(Tail(script), line, bc + blk.count, cc + blk.count)
             ELSE IF blk.op = "Delete"
             THEN IF line >= bc /\ line < bc + blk.count
                  THEN Undefined
                  ELSE measureDrift(Tail(script), line, bc + blk.count, cc)
             ELSE measureDrift(Tail(script), line, bc, cc + blk.count)

\* driftedRegionToSelection(diffBlocks, currentDoc, region, originalDoc):
\* without a baseline the region is used verbatim on the current document
driftedRegionToSelection(diffBlocks, currentDoc, region, originalDoc) ==
    IF originalDoc = Undefined THEN Range(region.startLine - 1)
    ELSE measureDrift(diffBlocks, region.startLine - 1, 0, 0)

\* ------------------------------------------------- the documents as objects
\* editor.document
currentDocOf(editor) ==
    [uri |-> EditorDoc[editor], lines |-> CurrentText[EditorDoc[editor]]]

\* the outcomes of getOriginalDoc(commit_sha, currentDoc): the document at
\* the analysed commit, or undefined when there is no such snapshot
getOriginalDoc(currentDoc) ==
    {Undefined, [uri |-> currentDoc.uri, lines |-> BaselineText[currentDoc.uri]]}

\* whether currentDoc.lineAt(line) returns a line (it throws otherwise)
hasLine(doc, line) == line >= 0 /\ line < Len(doc.lines)

\* --------------------------------------------------- one editor of one pass
\* parseArtifactLocation(result, artifactLocation): the first component of
\* the returned tuple is the artifact's uri string
parseArtifactLocation(result, tfl) == <<tfl.uri>>

\* the value an async function returns to its caller: a promise of v
Promise(v) == [promise |-> v]

\* ToBoolean of an object (a promise included) or of undefined
ToBoolean(obj) == obj # Undefined

\* the callback handed to locations.filter
inDocCallback(result, currentDoc, tfl) ==
    Promise(translateLocalToArtifact(currentDoc.uri)
              = parseArtifactLocation(result, tfl)[1])

\* result.codeFlows?.[0]?.threadFlows?.[0]?.locations ?? []
locationsOf(result) == result.locations

locationsInDoc(result, currentDoc) ==
    SelectSeq(locationsOf(result),
              LAMBDA tfl : ToBoolean(inDocCallback(result, currentDoc, tfl)))

\* the texts a document object can hold, and their diffs (diffChars is pure)
Texts == {CurrentText[d] : d \in Docs} \cup {BaselineText[d] : d \in Docs}

diffCharsOf == [b \in Texts, c \in Texts |-> diffChars(b, c)]

diffBlocksOf(originalDoc, currentDoc) ==
    IF originalDoc # Undefined
    THEN diffCharsOf[originalDoc.lines, currentDoc.lines]
    ELSE <<>>

\* the number of calls of diffChars in one iteration of the loop, were the
\* diff computed for each location
diffCallsOf_perLocation(result, currentDoc, originalDoc) ==
    IF originalDoc # Undefined THEN Len(locationsInDoc(result, currentDoc)) ELSE 0

\* the number of calls of diffChars in one iteration of the loop: diffBlocks
\* is computed before ranges, once, and only when there is a snapshot
diffCallsOf(result, currentDoc, originalDoc) ==
    IF originalDoc # Undefined THEN 1 ELSE 0

rangesOf(result, currentDoc, originalDoc) ==
    LET inDoc == locationsInDoc(result, currentDoc)
        diffBlocks == diffBlocksOf(originalDoc, currentDoc)
    IN  [i \in 1..Len(inDoc) |->
            driftedRegionToSelection(diffBlocks, currentDoc, inDoc[i].region,
                                     originalDoc)]

\* locations.indexOf(tfl): 0-based index of the first element that is the
\* object tfl, -1 when there is none
indexOf(locations, tfl) ==
    IF \E i \in 1..Len(locations) : locations[i].id = tfl.id
    THEN (CHOOSE i \in 1..Len(locations) :
             /\ locations[i].id = tfl.id
             /\ \A j \in 1..(i - 1) : locations[j].id # tfl.id) - 1
    ELSE 0 - 1

\* the message, were the step numbered by the 0-based index
messageOf_zeroBased(locations, tfl) ==
    "Step " \o ToString(indexOf(locations, tfl))
            \o (IF tfl.text # None /\ tfl.text # "" THEN ": " \o tfl.text ELSE "")

\* `Step ${locations.indexOf(tfl) + 1}${text ? `: ${text}` : ""}`
messageOf(locations, tfl) ==
    "Step " \o ToString(indexOf(locations, tfl) + 1)
            \o (IF tfl.text # None /\ tfl.text # "" THEN ": " \o tfl.text ELSE "")

messagesOf(result, currentDoc) ==
    LET inDoc == locationsInDoc(result, currentDoc)
    IN  [i \in 1..Len(inDoc) |-> messageOf(locationsOf(result), inDoc[i])]

\* whether computing rangesEnd throws: a range is undefined, or its end
\* line is not a line of the current document
rangesEndThrows(ranges, currentDoc) ==
    \E i \in 1..Len(ranges) :
        \/ ranges[i] = Undefined
        \/ ~hasLine(currentDoc, ranges[i].end.line)

\* the end position of the line of the range's end
rangesEndOf(ranges, currentDoc) ==
    [i \in 1..Len(ranges) |->
        LET endPos == [line |-> ranges[i].end.line,
                       character |-> Len(currentDoc.lines[ranges[i].end.line + 1])]
        IN  [start |-> endPos, end |-> endPos]]

\* currentDoc.lineAt(line).text.match(/\t/g)?.length ?? 0
tabCountOf(currentDoc, line) ==
    Cardinality({k \in 1..Len(currentDoc.lines[line + 1]) :
                    currentDoc.lines[line + 1][k] = "\t"})

\* rangesEndAdj, were a tab counted as tabSize further columns
rangesEndAdjOf_fullTab(rangesEnd, currentDoc, tabSize) ==
    [i \in 1..Len(rangesEnd) |->
        LET tabCount == tabCountOf(currentDoc, rangesEnd[i].end.line)
            tabCharAdj == tabCount * tabSize
        IN  rangesEnd[i].end.character + tabCharAdj]

rangesEndAdjOf(rangesEnd, currentDoc, tabSize) ==
    [i \in 1..Len(rangesEnd) |->
        LET tabCount == tabCountOf(currentDoc, rangesEnd[i].end.line)
            tabCharAdj == tabCount * (tabSize - 1)
        IN  rangesEnd[i].end.character + tabCharAdj]

\* Math.max(...xs) of a non-empty list
MathMax(xs) ==
    CHOOSE m \in {xs[i] : i \in 1..Len(xs)} : \A i \in 1..Len(xs) : xs[i] <= m

\* maxRangeEnd, were the padding of 2 forgotten
maxRangeEndOf_noPadding(rangesEndAdj) == MathMax(rangesEndAdj)

maxRangeEndOf(rangesEndAdj) == MathMax(rangesEndAdj) + 2

\* ` ${"-".repeat(n)} ${message}`, as its pieces
contentTextOf(n, message) == <<" ">> \o Chars("-", n) \o <<" ", message>>

decorCalloutsOf(rangesEnd, rangesEndAdj, messages) ==
    [i \in 1..Len(rangesEnd) |->
        [range |-> rangesEnd[i],
         hoverMessage |-> messages[i],
         contentText |-> contentTextOf(maxRangeEndOf(rangesEndAdj) - rangesEndAdj[i],
                                       messages[i])]]

\* ------------------------------------------------------------------- state
VARIABLES
    activeResultId,       \* the observable box: a JSON text, or None
    logs,                 \* store.logs: the uris of the logs in the store
    visibleTextEditors,   \* window.visibleTextEditors
    decorations,          \* per editor, what setDecorations last applied
    passes,               \* the update() invocations suspended on an await
    clock,                \* update() invocations and removal handlers so far
    lastUpdate,           \* the number of the latest update() invocation
    evt                   \* the step taken last: which handler ran, on what

vars == <<activeResultId, logs, visibleTextEditors, decorations, passes, clock,
          lastUpdate, evt>>

\* one decoration type of one editor: the array handed to setDecorations
\* (value), by which invocation (by; 0: none yet), computed from the result
\* with which _id (of; <<>>: none) and from which location objects (tfls)
Decoration(by, of, tfls, value) ==
    [by |-> by, of |-> of, tfls |-> tfls, value |-> value]

NoDecoration == Decoration(0, <<>>, <<>>, <<>>)

\* editor.setDecorations(type, []) of the removal handler numbered n
Cleared(n) == Decoration(n, <<>>, <<>>, <<>>)

Ids(tfls) == [i \in 1..Len(tfls) |-> tfls[i].id]

SeqRange(s) == {s[i] : i \in 1..Len(s)}

\* the lists of distinct editors
EditorLists ==
    {<<>>} \cup {<<e>> : e \in Editors}
           \cup {s \in Editors \X Editors : s[1] # s[2]}

Init ==
    /\ activeResultId = None
    /\ logs = {}
    /\ visibleTextEditors \in EditorLists
    /\ decorations = [e \in Editors |->
                         [highlight |-> NoDecoration, callout |-> NoDecoration]]
    /\ passes = {}
    /\ clock = 0
    /\ lastUpdate = 0
    /\ evt = [kind |-> "init"]

\* ----------------------------------------------------------------- update()
\* update(), were it to fall back to a result of the store while the box is
\* unset
update_fallsBack(resultId, storeLogs, visible, n) ==
    LET live == {r \in AllResults : r._id[1] \in storeLogs}
        result == IF resultId = None \/ resultId = ""
                  THEN IF live = {} THEN Undefined ELSE CHOOSE r \in live : TRUE
                  ELSE findResult(storeLogs, JSONparse(resultId))
    IN  IF result = Undefined THEN {}
        ELSE IF visible = <<>> THEN {}
        ELSE {[id |-> n, result |-> result, editors |-> visible, i |-> 1]}

\* update() numbered n, run up to its first await: the invocation left
\* suspended on getOriginalDoc for the first visible editor, if any
update(resultId, storeLogs, visible, n) ==
    IF resultId = None \/ resultId = "" THEN {}
    ELSE LET result == findResult(storeLogs, JSONparse(resultId))
         IN  IF result = Undefined THEN {}
             ELSE IF visible = <<>> THEN {}
             ELSE {[id |-> n, result |-> result, editors |-> visible, i |-> 1]}

\* the result an invocation decorates with, were it resolved anew from the
\* box and the store in every iteration of the loop
resultOf_resolvedAnew(p) ==
    LET result == IF activeResultId # None THEN findResult(logs, JSONparse(activeResultId))
                  ELSE Undefined
    IN  IF result = Undefined THEN p.result ELSE result

\* the result an invocation decorates with: the constant `result` that
\* update() set before its loop
resultOf(p) == p.result

\* getOriginalDoc settles for the invocation p: the rest of the loop body for
\* the editor p.editors[p.i], then the next await or the end of the loop.
\* setThrows: whether setDecorations itself throws on an undefined range.
resume(p, originalDoc, setThrows) ==
    LET editor == p.editors[p.i]
        currentDoc == currentDocOf(editor)
        result == resultOf(p)
        inDoc == locationsInDoc(result, currentDoc)
        ranges == rangesOf(result, currentDoc, originalDoc)
        messages == messagesOf(result, currentDoc)
        rangesEnd == rangesEndOf(ranges, currentDoc)
        rangesEndAdj == rangesEndAdjOf(rangesEnd, currentDoc, TabSize[editor])
        decorCallouts == decorCalloutsOf(rangesEnd, rangesEndAdj, messages)
        shown == editor \in SeqRange(visibleTextEditors)
        highlight == Decoration(p.id, result._id, Ids(inDoc), ranges)
        callout == Decoration(p.id, result._id, Ids(inDoc), decorCallouts)
        threw == setThrows \/ rangesEndThrows(ranges, currentDoc)
    IN  /\ decorations' =
              IF ~shown \/ setThrows THEN decorations
              ELSE IF threw
              THEN [decorations EXCEPT ![editor].highlight = highlight]
              ELSE [decorations EXCEPT ![editor] =
                       [highlight |-> highlight, callout |-> callout]]
        /\ passes' =
              IF threw \/ p.i = Len(p.editors) THEN passes \ {p}
              ELSE (passes \ {p}) \cup {[p EXCEPT !.i = p.i + 1]}
        /\ evt' = [kind |-> "resume", pass |-> p.id, editor |-> editor,
                   threw |-> threw, snapshot |-> originalDoc # Undefined,
                   diffs |-> diffCallsOf(result, currentDoc, originalDoc)]
        /\ UNCHANGED <<activeResultId, logs, visibleTextEditors, clock, lastUpdate>>

Resume ==
    \E p \in passes :
        \E originalDoc \in getOriginalDoc(currentDocOf(p.editors[p.i])) :
            \E setThrows \in
                  {FALSE} \cup {Undefined \in SeqRange(rangesOf(resultOf(p),
                                    currentDocOf(p.editors[p.i]), originalDoc))} :
                resume(p, originalDoc, setThrows)

\* ------------------------------------------------------------------ events
\* languages.registerCodeActionsProvider: provideCodeActions sets the box,
\* and observe(activeResultId, update) runs update when its value changed
selectionChanged(context) ==
    LET next == provideCodeActions(activeResultId, context)
    IN  /\ activeResultId' = next
        /\ IF next # activeResultId
           THEN /\ clock < MaxPasses
                /\ clock' = clock + 1
                /\ lastUpdate' = clock + 1
                /\ passes' = passes \cup
                       update(next, logs, visibleTextEditors, clock + 1)
           ELSE UNCHANGED <<clock, lastUpdate, passes>>
        /\ evt' = [kind |-> "select", only |-> context.only,
                   first |-> firstResultId(context)]
        /\ UNCHANGED <<logs, visibleTextEditors, decorations>>

SelectionChanged == \E context \in Contexts(logs) : selectionChanged(context)

\* window.onDidChangeVisibleTextEditors(update); an editor that is no longer
\* visible is disposed, and its decorations with it
visibleEditorsChanged(editors) ==
    /\ SeqRange(editors) # SeqRange(visibleTextEditors)
    /\ clock < MaxPasses
    /\ visibleTextEditors' = editors
    /\ decorations' = [e \in Editors |->
                          IF e \in SeqRange(editors) THEN decorations[e]
                          ELSE [highlight |-> NoDecoration, callout |-> NoDecoration]]
    /\ clock' = clock + 1
    /\ lastUpdate' = clock + 1
    /\ passes' = passes \cup update(activeResultId, logs, editors, clock + 1)
    /\ evt' = [kind |-> "visible"]
    /\ UNCHANGED <<activeResultId, logs>>

VisibleEditorsChanged == \E editors \in EditorLists : visibleEditorsChanged(editors)

\* the store.logs observer, were it to unpin the result on a removal
logsChanged_unpins(removed, added) ==
    /\ removed \cup added # {}
    /\ logs' = (logs \ removed) \cup added
    /\ IF removed = {}
       THEN UNCHANGED <<decorations, clock, activeResultId>>
       ELSE /\ clock < MaxPasses
            /\ clock' = clock + 1
            /\ activeResultId' = None
            /\ decorations' = [e \in Editors |->
                   IF e \in SeqRange(visibleTextEditors)
                   THEN [highlight |-> Cleared(clock + 1),
                         callout |-> Cleared(clock + 1)]
                   ELSE decorations[e]]
    /\ evt' = [kind |-> "logs", removed |-> removed, added |-> added]
    /\ UNCHANGED <<visibleTextEditors, passes, lastUpdate>>

logsChanged_clearsAlways(removed, added) ==
    /\ removed \cup added # {}
    /\ logs' = (logs \ removed) \cup added
    /\ IF removed = {}
       THEN /\ UNCHANGED clock
            /\ decorations' = [e \in Editors |->
                   IF e \in SeqRange(visibleTextEditors)
                   THEN [highlight |-> Cleared(clock),
                         callout |-> Cleared(clock)]
                   ELSE decorations[e]]
       ELSE /\ clock < MaxPasses
            /\ clock' = clock + 1
            /\ decorations' = [e \in Editors |->
                   IF e \in SeqRange(visibleTextEditors)
                   THEN [highlight |-> Cleared(clock + 1),
                         callout |-> Cleared(clock + 1)]
                   ELSE decorations[e]]
    /\ evt' = [kind |-> "logs", removed |-> removed, added |-> added]
    /\ UNCHANGED <<activeResultId, visibleTextEditors, passes, lastUpdate>>

\* observe(store.logs, change): a splice that removed and added logs
logsChanged(removed, added) ==
    /\ removed \cup added # {}
    /\ logs' = (logs \ removed) \cup added
    /\ IF removed = {}
       THEN UNCHANGED <<decorations, clock>>
       ELSE /\ clock < MaxPasses
            /\ clock' = clock + 1
            /\ decorations' = [e \in Editors |->
                   IF e \in SeqRange(visibleTextEditors)
                   THEN [highlight |-> Cleared(clock + 1),
                         callout |-> Cleared(clock + 1)]
                   ELSE decorations[e]]
    /\ evt' = [kind |-> "logs", removed |-> removed, added |-> added]
    /\ UNCHANGED <<activeResultId, visibleTextEditors, passes, lastUpdate>>

LogsChanged ==
    \E removed \in SUBSET logs :
        \E added \in SUBSET (LogUris \ logs) : logsChanged(removed, added)

Next == SelectionChanged \/ VisibleEditorsChanged \/ LogsChanged \/ Resume

Spec == Init /\ [][Next]_vars

\* ------------------------------------------------------ the pinned result
Pinned == activeResultId # None

\* the pinned id resolves to a result of the store
PinnedResolves ==
    Pinned /\ findResult(logs, JSONparse(activeResultId)) # Undefined

resultById(id) == CHOOSE r \in AllResults : r._id = id

\* C1: a selection event that carries no diagnostic, or a diagnostic without
\* a result, leaves activeResultId as it was; and no step takes a pinned
\* activeResultId back to unset.
StickyPinning ==
    [][ /\ (evt'.kind = "select" /\ evt'.first = <<>>)
            => activeResultId' = activeResultId
        /\ Pinned => activeResultId' # None ]_vars

\* a selection event without a result has just been handled while a result
\* is pinned
StickyPinningWitness ==
    evt.kind = "select" /\ evt.only = None /\ evt.first = <<>> /\ Pinned

\* C2 as stated: after any selection event whose diagnostic carries a
\* result, activeResultId is the JSON text of that result's _id.
SelectionPins ==
    (evt.kind = "select" /\ evt.first # <<>>)
        => activeResultId = JSONstringify(evt.first)

\* C2 as amended: after a selection event without an `only` filter whose
\* first diagnostic carries a result, activeResultId is the JSON text of
\* that result's _id, whatever it was before.
UnfilteredSelectionPins ==
    (evt.kind = "select" /\ evt.only = None /\ evt.first # <<>>)
        => activeResultId = JSONstringify(evt.first)

\* such an event has just replaced the pin of another result, whose
\* decorations are still on an editor
UnfilteredSelectionPinsWitness ==
    /\ evt.kind = "select" /\ evt.only = None /\ evt.first # <<>>
    /\ \E e \in Editors : decorations[e].highlight.of \notin {<<>>, evt.first}

\* C3: a change of the visible editors, a change of store.logs and a step
\* of an update pass leave activeResultId unchanged.
OnlySelectionPins ==
    [][ evt'.kind \in {"visible", "logs", "resume"}
            => activeResultId' = activeResultId ]_vars

\* the log of the pinned result has just been removed, and the id stays
\* pinned although it no longer resolves
OnlySelectionPinsWitness ==
    /\ evt.kind = "logs" /\ evt.removed # {}
    /\ Pinned /\ ~PinnedResolves

\* -------------------------------------------------- what an editor shows
Kinds == {"highlight", "callout"}

\* an update pass for result decorates editor e whatever snapshot it gets:
\* every location projects onto a line of the editor's document
Renders(result, e) ==
    \A originalDoc \in getOriginalDoc(currentDocOf(e)) :
        ~rangesEndThrows(rangesOf(result, currentDocOf(e), originalDoc),
                         currentDocOf(e))

\* the thread-flow locations of result whose artifact is the document of e
InEditor(result, e) ==
    SelectSeq(result.locations,
              LAMBDA tfl : tfl.uri = translateLocalToArtifact(EditorDoc[e]))

\* C4: the locations projected and rendered in an editor are exactly the
\* thread-flow locations of the result whose artifact uri is the one
\* resolved for the editor's document.
RendersOnlyOwnDocument ==
    \A e \in Editors : \A k \in Kinds :
        decorations[e][k].of # <<>>
            => decorations[e][k].tfls =
                   Ids(InEditor(resultById(decorations[e][k].of), e))

\* C5: while the pinned id does not resolve and no update pass is in
\* flight, every visible editor has empty highlight and callout sets.
UnresolvedRendersNothing ==
    (Pinned /\ ~PinnedResolves /\ passes = {})
        => \A e \in SeqRange(visibleTextEditors) : \A k \in Kinds :
               decorations[e][k].value = <<>>

\* C6: after a removal from store.logs that leaves the pinned id resolved,
\* the visible editors get the pinned result's annotations again without a
\* further event: when the removal handler has run and no update pass is
\* in flight, they are there.
LogRemovedRecomputes ==
    ( /\ evt.kind = "logs" /\ evt.removed # {}
      /\ PinnedResolves /\ passes = {}
      /\ \A e \in SeqRange(visibleTextEditors) :
             Renders(resultById(JSONparse(activeResultId)), e) )
        => \A e \in SeqRange(visibleTextEditors) : \A k \in Kinds :
               decorations[e][k].of = JSONparse(activeResultId)

\* C7: the highlight set and the callout set of an editor were written by
\* the same update pass, or cleared by the same removal handler.
KindsSetTogether ==
    \A e \in Editors : decorations[e].highlight.by = decorations[e].callout.by

\* C8: once every started update pass has finished, a visible editor that
\* shows annotations shows those computed by the pass started last, which
\* are those of the pinned result.
StalePassOverwritten ==
    ( /\ passes = {} /\ PinnedResolves
      /\ \A e \in SeqRange(visibleTextEditors) :
             Renders(resultById(JSONparse(activeResultId)), e) )
        => \A e \in SeqRange(visibleTextEditors) : \A k \in Kinds :
               decorations[e][k].of # <<>>
                   => /\ decorations[e][k].by = lastUpdate
                      /\ decorations[e][k].of = JSONparse(activeResultId)

\* the visual column of the end of line `line` of the document of editor e
VisualEnd(e, line) ==
    LET text == CurrentText[EditorDoc[e]][line + 1]
    IN  Len(text) + (TabSize[e] - 1) * Cardinality({k \in 1..Len(text) : text[k] = "\t"})

\* the number of filler glyphs of a callout's contentText
Padding(item) == Cardinality({k \in 1..Len(item.contentText) : item.contentText[k] = "-"})

\* C9: in the callouts one pass gives one editor, each padding is the
\* greatest visual end-of-line column plus 2 minus the callout's own, so
\* column plus padding is the same for all of them, and at least 2.
CalloutAlignment ==
    \A e \in Editors :
        LET items == decorations[e].callout.value
            col(i) == VisualEnd(e, items[i].range.end.line)
        IN  \A i \in 1..Len(items) :
                /\ Padding(items[i]) >= 2
                /\ \A j \in 1..Len(items) : col(j) <= col(i) + Padding(items[i]) - 2
                /\ \E j \in 1..Len(items) : col(j) = col(i) + Padding(items[i]) - 2
                /\ \A j \in 1..Len(items) :
                       col(i) + Padding(items[i]) = col(j) + Padding(items[j])
                /\ items[i].contentText =
                       <<" ">> \o [k \in 1..Padding(items[i]) |-> "-"]
                               \o <<" ", items[i].hoverMessage>>

\* an editor has callouts on lines that end at visual columns 10 and 14,
\* the widest: their paddings are 6 and 2; a third line holds tabs
CalloutAlignmentWitness ==
    \E e \in Editors :
        LET items == decorations[e].callout.value
        IN  \E i, j, k \in 1..Len(items) :
                /\ VisualEnd(e, items[i].range.end.line) = 10
                /\ Padding(items[i]) = 6
                /\ VisualEnd(e, items[j].range.end.line) = 14
                /\ Padding(items[j]) = 2
                /\ VisualEnd(e, items[k].range.end.line)
                       > items[k].range.end.character

\* the step label of the N-th location of a result
StepLabel(result, N) ==
    LET text == result.locations[N].text
    IN  "Step " \o ToString(N) \o (IF text \in {None, ""} THEN "" ELSE ": " \o text)

\* C10: the callout of a rendered location is labelled "Step N" with N
\* the 1-based position of the location in the result's full location list.
StepNumbering ==
    \A e \in Editors :
        LET d == decorations[e].callout
        IN  \A i \in 1..Len(d.value) :
                \E N \in 1..Len(resultById(d.of).locations) :
                    /\ resultById(d.of).locations[N].id = d.tfls[i]
                    /\ d.value[i].hoverMessage = StepLabel(resultById(d.of), N)

\* an editor shows the callout of a location that is not the first of its
\* result, and of one that belongs to another document
StepNumberingWitness ==
    \E e \in Editors :
        LET d == decorations[e].callout
        IN  /\ Len(d.value) >= 2
            /\ \E i \in 1..Len(d.value) :
                   d.tfls[i] \notin SeqRange(Ids(InEditor(resultById(d.of), e)))

\* C11: no exception leaves an update pass: the iteration of the loop for
\* an editor ends with both decoration sets of the editor set by the pass,
\* the locations that do not project being skipped.
NoExceptionEscapes ==
    evt.kind = "resume"
        => /\ ~evt.threw
           /\ evt.editor \in SeqRange(visibleTextEditors)
                  => \A k \in Kinds : decorations[evt.editor][k].by = evt.pass

\* C12: while activeResultId is unset no update pass gets past its first
\* check: none is suspended, no editor holds a decoration set by a pass,
\* and every decoration set is empty.
UnsetRendersNothing ==
    ~Pinned
        => /\ passes = {}
           /\ \A e \in Editors : \A k \in Kinds :
                  /\ decorations[e][k].of = <<>>
                  /\ decorations[e][k].value = <<>>

\* update() has just run for a change of the visible editors, with logs in
\* the store and an editor to decorate, while activeResultId is unset
UnsetRendersNothingWitness ==
    /\ ~Pinned /\ evt.kind = "visible" /\ lastUpdate = clock
    /\ logs # {} /\ visibleTextEditors # <<>>

\* C13: when getOriginalDoc yields no snapshot for an editor's document,
\* the iteration for that editor calls no diff, throws nothing and sets
\* both decoration sets of the editor, the highlights being one range per
\* location.
MissingSnapshotIsNoError ==
    (evt.kind = "resume" /\ ~evt.snapshot)
        => /\ evt.diffs = 0
           /\ ~evt.threw
           /\ evt.editor \in SeqRange(visibleTextEditors)
                  => /\ \A k \in Kinds : decorations[evt.editor][k].by = evt.pass
                     /\ Len(decorations[evt.editor].highlight.value)
                            = Len(decorations[evt.editor].highlight.tfls)

\* the number of tab characters of line `line` of the document of editor e
Tabs(e, line) ==
    LET text == CurrentText[EditorDoc[e]][line + 1]
    IN  Cardinality({k \in 1..Len(text) : text[k] = "\t"})

\* C14: a callout is anchored at the character column of the end of its
\* line, and the column its padding is measured from is that column plus
\* tabSize - 1 for each tab character of the line: the paddings of two
\* callouts of an editor differ by the difference of these columns.
TabCompensation ==
    \A e \in Editors :
        LET items == decorations[e].callout.value
            line(i) == items[i].range.end.line
            adj(i) == items[i].range.end.character + Tabs(e, line(i)) * (TabSize[e] - 1)
        IN  \A i \in 1..Len(items) :
                /\ items[i].range.end.character
                       = Len(CurrentText[EditorDoc[e]][line(i) + 1])
                /\ Tabs(e, line(i)) = 0 => adj(i) = items[i].range.end.character
                /\ \A j \in 1..Len(items) :
                       Padding(items[j]) - Padding(items[i]) = adj(i) - adj(j)

\* an editor has a callout on a line with tabs that has fewer characters
\* than the line without tabs of another callout, and yet less padding
TabCompensationWitness ==
    \E e \in Editors :
        LET items == decorations[e].callout.value
        IN  \E i, j \in 1..Len(items) :
                /\ Tabs(e, items[i].range.end.line) > 0
                /\ Tabs(e, items[j].range.end.line) = 0
                /\ items[i].range.end.character < items[j].range.end.character
                /\ Padding(items[i]) < Padding(items[j])

\* the thread-flow location object with identity id
tflById(id) ==
    CHOOSE tfl \in UNION {SeqRange(r.locations) : r \in AllResults} : tfl.id = id

SelectionReflected ==
    ( /\ evt.kind = "select" /\ evt.only = None /\ evt.first # <<>>
      /\ findResult(logs, evt.first) # Undefined
      /\ passes = {}
      /\ \A e \in SeqRange(visibleTextEditors) : Renders(resultById(evt.first), e) )
        => \A e \in SeqRange(visibleTextEditors) : \A k \in Kinds :
               decorations[e][k].of = evt.first

\* C17: a change of store.logs that removes no log starts no update pass and
\* leaves every editor's decoration sets and activeResultId as they were; a
\* change that removes at least one log empties both decoration sets of
\* every visible editor.
LogsChangeEffect ==
    [][ evt'.kind = "logs"
            => IF evt'.removed = {}
               THEN /\ passes' = passes
                    /\ lastUpdate' = lastUpdate
                    /\ clock' = clock
                    /\ decorations' = decorations
                    /\ activeResultId' = activeResultId
               ELSE \A e \in SeqRange(visibleTextEditors') : \A k \in Kinds :
                        decorations'[e][k].value = <<>> ]_vars
LogsChangeEffectWitness ==
    /\ evt.kind = "logs" /\ evt.removed = {}
    /\ Pinned
    /\ \E e \in SeqRange(visibleTextEditors) : decorations[e].callout.value # <<>>
LogsChangeEffectWitnessRemoved ==
    /\ evt.kind = "logs" /\ evt.removed # {}
    /\ Pinned /\ visibleTextEditors # <<>>

\* C18: an update pass reads the pinned id and resolves the result once, at
\* its start: all decorations applied by one pass carry that one result, and
\* a pass suspended between editors has decorated with the result it holds,
\* whatever activeResultId and store.logs have become in the meantime.
OneResultPerPass ==
    /\ \A e \in Editors : \A f \in Editors : \A k \in Kinds : \A l \in Kinds :
           ( /\ decorations[e][k].by = decorations[f][l].by
             /\ decorations[e][k].of # <<>>
             /\ decorations[f][l].of # <<>> )
               => decorations[e][k].of = decorations[f][l].of
    /\ \A p \in passes : \A e \in Editors : \A k \in Kinds :
           (decorations[e][k].by = p.id /\ decorations[e][k].of # <<>>)
               => decorations[e][k].of = p.result._id
OneResultPerPassWitness ==
    /\ evt.kind = "resume"
    /\ \E e \in Editors : \E f \in Editors \ {e} :
           /\ evt.editor = f
           /\ decorations[e].highlight.by = evt.pass
           /\ decorations[f].highlight.by = evt.pass
           /\ decorations[f].highlight.of # <<>>
           /\ decorations[e].highlight.of = decorations[f].highlight.of
           /\ activeResultId # JSONstringify(decorations[f].highlight.of)
OneResultPerPassWitnessRemoved ==
    /\ evt.kind = "resume"
    /\ \E e \in Editors : \E f \in Editors \ {e} :
           /\ evt.editor = f
           /\ decorations[e].highlight.by = evt.pass
           /\ decorations[f].highlight.by = evt.pass
           /\ decorations[f].highlight.of # <<>>
           /\ findResult(logs, decorations[f].highlight.of) = Undefined

====
